---- MODULE Spec2Model ----
(***************************************************************************)
(* Private Send (src/src/app/private-send/page.tsx): the chunk planner,    *)
(* the delay scheduler, and the 11-step pipeline executePrivateSend as it  *)
(* is driven by the page's handleSubmit; the page around its runs; the     *)
(* API routes, the user store of the server (src/src/lib/auth) and the     *)
(* route guard of the client (src/src/components/ProtectedRoute.tsx).      *)
(*                                                                         *)
(* Conventions.                                                            *)
(*  - A JavaScript string is a sequence of one-character strings.          *)
(*  - A JavaScript number is an integer, or NaN (a reserved value that no  *)
(*    arithmetic of the model produces).  The amounts of the model are     *)
(*    small, so every floating-point product and quotient the code forms   *)
(*    is computed here exactly (as a floor of a rational).                 *)
(*  - JavaScript arrays are indexed from 0, the sequences here from 1.     *)
(***************************************************************************)
EXTENDS Integers, Sequences, FiniteSets, TLC

VARIABLES
    \* ---- the page (PrivateSendContent) and the arguments of a run
    privateKey, recipient, amount, numChunks,
    loading, steps, error, result,
    \* ---- one call of executePrivateSend
    pc, amountLamports, delayMs, previousAmounts, matchedAmounts,
    burnerWallets, withdrawalAmounts, signatures, i, failedStep,
    \* ---- what the caller and the collaborators observe
    updates, calls,
    \* ---- the world: ledger, clock, random source
    ledgerDeposits, swigs, balance, ticks,
    \* ---- the pure functions applied on their own
    totalAmount, plan, schedule,
    \* ---- the user store of the server (lib/auth/users) and its callers
    users, usersFile, registrations,
    \* ---- the route guard (components/ProtectedRoute) and its browser
    localToken, authCache, clock, guard

serverVars == <<users, usersFile, registrations>>
guardVars == <<localToken, authCache, clock, guard>>
pageVars == <<privateKey, recipient, amount, numChunks, loading, steps, error, result, serverVars, guardVars>>
runVars == <<pc, amountLamports, delayMs, previousAmounts, matchedAmounts, burnerWallets, withdrawalAmounts, signatures, i, failedStep>>
obsVars == <<updates, calls>>
worldVars == <<ledgerDeposits, swigs, balance, ticks>>
pureVars == <<totalAmount, plan, schedule>>
vars == <<pageVars, runVars, obsVars, worldVars, pureVars>>

----------------------------------------------------------------------------
(* Program constants *)

MIN_CHUNKS == 2
MAX_CHUNKS == 10
MAX_DELAY_MS == 4 * 60 * 60 * 1000
LAMPORTS_PER_SOL == 1000000000
BALANCE_BUFFER == 1000000
TRANSFER_EXTRA == 15000000
KEY_HEX_LEN == 64
PUBKEY_BYTES == 32
CACHE_DURATION == 300000

(* Bounds of the model *)

MaxTotal == 12
MaxHistAmount == 4
MaxHistLen == 2
MaxRunHistLen == 1
MaxSeed == 1
RandomGrain == 4
MaxFresh == 1
MaxCountdown == 2
MaxEnsures == 2
MaxRequests == 2
MaxLiveChunks == 2
MaxLevels == 1
MaxRegistrations == 3
MaxClockSteps == 3

----------------------------------------------------------------------------
(* JavaScript numbers and strings *)

NaN == -2147483647

IsNaN(x) == x = NaN

Min(a, b) == IF a <= b THEN a ELSE b

Abs(x) == IF x < 0 THEN -x ELSE x

RECURSIVE Pow10(_)
Pow10(k) == IF k <= 0 THEN 1 ELSE 10 * Pow10(k - 1)

RECURSIVE Log10(_)
Log10(x) == IF x < 10 THEN 0 ELSE 1 + Log10(x \div 10)

RECURSIVE SumSeq(_)
SumSeq(s) == IF s = <<>> THEN 0 ELSE Head(s) + SumSeq(Tail(s))

Digits == {"0", "1", "2", "3", "4", "5", "6", "7", "8", "9"}

DigitVal(c) == CASE c = "0" -> 0 [] c = "1" -> 1 [] c = "2" -> 2 [] c = "3" -> 3 [] c = "4" -> 4 [] c = "5" -> 5 [] c = "6" -> 6 [] c = "7" -> 7 [] c = "8" -> 8 [] c = "9" -> 9

\* the longest run of decimal digits of s that starts at position p
RECURSIVE DigitRun(_, _)
DigitRun(s, p) == IF p <= Len(s) /\ s[p] \in Digits THEN <<s[p]>> \o DigitRun(s, p + 1) ELSE <<>>

\* the value of a run of decimal digits, read from the left
RECURSIVE DigitsValueFrom(_, _, _)
DigitsValueFrom(ds, k, acc) == IF k > Len(ds) THEN acc ELSE DigitsValueFrom(ds, k + 1, 10 * acc + DigitVal(ds[k]))

DigitsValue(ds) == DigitsValueFrom(ds, 1, 0)

RECURSIVE SkipSpaces(_, _)
SkipSpaces(s, p) == IF p <= Len(s) /\ s[p] = " " THEN SkipSpaces(s, p + 1) ELSE p

\* parseFloat: leading blanks, an optional sign, then the longest prefix
\* "digits [. digits]" or ". digits"; anything else is NaN.  The value is
\* mant / 10^scale (an exponent part is never in the strings of the model).
parseFloat(s) ==
    LET p0 == SkipSpaces(s, 1)
        signed == p0 <= Len(s) /\ s[p0] \in {"-", "+"}
        neg == signed /\ s[p0] = "-"
        p1 == IF signed THEN p0 + 1 ELSE p0
        intDigits == DigitRun(s, p1)
        p2 == p1 + Len(intDigits)
        hasDot == p2 <= Len(s) /\ s[p2] = "."
        fracDigits == IF hasDot THEN DigitRun(s, p2 + 1) ELSE <<>>
        m == DigitsValue(intDigits \o fracDigits)
    IN  IF intDigits = <<>> /\ fracDigits = <<>>
        THEN [nan |-> TRUE, mant |-> 0, scale |-> 0]
        ELSE [nan |-> FALSE, mant |-> IF neg THEN -m ELSE m, scale |-> Len(fracDigits)]

\* Math.floor(parseFloat(amount) * LAMPORTS_PER_SOL)
ToLamports(s) ==
    LET f == parseFloat(s)
        d == Log10(LAMPORTS_PER_SOL)
    IN  IF f.nan THEN NaN
        ELSE IF f.scale <= d THEN f.mant * Pow10(d - f.scale)
        ELSE f.mant \div Pow10(f.scale - d)

----------------------------------------------------------------------------
(* getPreviousDepositAmounts: the positive transfer amounts, unique, ascending *)

SeqRange(s) == {s[k] : k \in 1..Len(s)}

RECURSIVE SortAscending(_)
SortAscending(S) ==
    IF S = {} THEN <<>>
    ELSE LET m == CHOOSE x \in S : \A y \in S : x <= y
         IN  <<m>> \o SortAscending(S \ {m})

getPreviousDepositAmounts(transfers, queryOk) ==
    LET amounts == IF queryOk THEN {a \in SeqRange(transfers) : a > 0} ELSE {}
    IN  SortAscending(amounts)

----------------------------------------------------------------------------
(* generateRandomSplits: numChunks values 10 + Math.random() * 20, each      *)
(* divided by their sum.  Math.random is one of the streams 0..MaxSeed; a    *)
(* split is kept as the fraction num / den.                                  *)

Random(seed, k) == (seed * k + (seed \div 2)) % RandomGrain

RandomValue(seed, k) == 10 + (20 * Random(seed, k)) \div RandomGrain

generateRandomSplits(n, seed) ==
    LET randomValues == [k \in 1..n |-> RandomValue(seed, k)]
        sum == SumSeq(randomValues)
    IN  [k \in 1..n |-> [num |-> randomValues[k], den |-> sum]]

\* Math.floor(totalAmount * split)
FloorShare(total, split) == (total * split.num) \div split.den

----------------------------------------------------------------------------
(* matchChunksToPreviousDeposits *)

\* the inner loop (lines 168-180): the closest entry not yet used that fits
\* the remaining amount, starting from entry 0 whether it is used or not.
\* |previousAmounts[j] - remaining / slots| is compared scaled by slots.
RECURSIVE ClosestFrom(_, _, _, _, _, _)
ClosestFrom(j, prev, used, remaining, slots, best) ==
    IF j > Len(prev) THEN best
    ELSE LET diff == Abs(prev[j] * slots - remaining)
             better == j \notin used /\ diff < best.diff /\ prev[j] <= remaining
         IN  ClosestFrom(j + 1, prev, used, remaining, slots,
                         IF better THEN [match |-> prev[j], index |-> j, diff |-> diff] ELSE best)

ClosestMatch(prev, used, remaining, slots) ==
    ClosestFrom(1, prev, used, remaining, slots,
                [match |-> prev[1], index |-> 1, diff |-> Abs(prev[1] * slots - remaining)])

\* the outer loop (lines 164-192) followed by the last chunk (line 195);
\* picked records, per slot, the entry taken (0: proportional split)
RECURSIVE MatchLoop_NoSubtract(_, _, _, _, _, _, _)
MatchLoop_NoSubtract(k, n, prev, matched, picked, used, remaining) ==
    IF k >= n - 1 THEN [amounts |-> Append(matched, remaining), picked |-> picked]
    ELSE LET best == ClosestMatch(prev, used, remaining, n - k)
             split == remaining \div (n - k)
         IN  IF best.match <= remaining
             THEN MatchLoop_NoSubtract(k + 1, n, prev, Append(matched, best.match), Append(picked, best.index),
                            used \cup {best.index}, remaining - best.match)
             ELSE MatchLoop_NoSubtract(k + 1, n, prev, Append(matched, split), Append(picked, 0),
                            used, remaining)

RECURSIVE MatchLoop_ExtraSlot(_, _, _, _, _, _, _)
MatchLoop_ExtraSlot(k, n, prev, matched, picked, used, remaining) ==
    IF k >= n THEN [amounts |-> Append(matched, remaining), picked |-> picked]
    ELSE LET best == ClosestMatch(prev, used, remaining, n - k + 1)
             split == remaining \div (n - k + 1)
         IN  IF best.match <= remaining
             THEN MatchLoop_ExtraSlot(k + 1, n, prev, Append(matched, best.match), Append(picked, best.index),
                            used \cup {best.index}, remaining - best.match)
             ELSE MatchLoop_ExtraSlot(k + 1, n, prev, Append(matched, split), Append(picked, 0),
                            used, remaining - split)

RECURSIVE MatchLoop(_, _, _, _, _, _, _)
MatchLoop(k, n, prev, matched, picked, used, remaining) ==
    IF k >= n - 1 THEN [amounts |-> Append(matched, remaining), picked |-> picked]
    ELSE LET best == ClosestMatch(prev, used, remaining, n - k)
             split == remaining \div (n - k)
         IN  IF best.match <= remaining
             THEN MatchLoop(k + 1, n, prev, Append(matched, best.match), Append(picked, best.index),
                            used \cup {best.index}, remaining - best.match)
             ELSE MatchLoop(k + 1, n, prev, Append(matched, split), Append(picked, 0),
                            used, remaining - split)

\* the branch for an empty history (lines 146-156)
RandomSplitChunks(total, n, seed) ==
    LET splits == generateRandomSplits(n, seed)
        previousSum == SumSeq([k \in 1..(n - 1) |-> FloorShare(total, splits[k])])
    IN  [k \in 1..n |-> IF k = n THEN total - previousSum ELSE FloorShare(total, splits[k])]

\* every comparison with NaN is false and every sum with NaN is NaN, so a NaN
\* total yields NaN in every slot, in either branch
matchChunksToPreviousDeposits(total, n, prev, seed) ==
    IF IsNaN(total) THEN [amounts |-> [k \in 1..n |-> NaN], picked |-> <<>>]
    ELSE IF Len(prev) = 0 THEN [amounts |-> RandomSplitChunks(total, n, seed), picked |-> <<>>]
    ELSE MatchLoop(0, n, prev, <<>>, <<>>, {}, total)

----------------------------------------------------------------------------
(* calculateDelayMs *)

calculateDelayMs_Full(n) ==
    IF n <= MIN_CHUNKS THEN 0
    ELSE ((n - MIN_CHUNKS) * MAX_DELAY_MS) \div (MAX_CHUNKS - MIN_CHUNKS)

\* ((n - MIN) / (MAX - MIN)) * MAX_DELAY_MS, halved and floored
calculateDelayMs(n) ==
    IF n <= MIN_CHUNKS THEN 0
    ELSE ((n - MIN_CHUNKS) * MAX_DELAY_MS) \div ((MAX_CHUNKS - MIN_CHUNKS) * 2)

----------------------------------------------------------------------------
(* Values of the variables a specification does not use *)

NoPlan == [amounts |-> <<>>, picked |-> <<>>]

NoSchedule == [n \in {} |-> 0]

\* the chunk counts tried: [MIN_CHUNKS, MAX_CHUNKS] and one beyond each end
ChunkInputs == (MIN_CHUNKS - 1)..(MAX_CHUNKS + 1)

\* no user registered and no registration under way
ServerIdle ==
    /\ users = <<>>
    /\ usersFile = <<>>
    /\ registrations = <<>>

NoToken == "null"

\* let authCache = { token: null, isValid: false, timestamp: 0 }
NoAuthCache == [token |-> NoToken, isValid |-> FALSE, timestamp |-> 0]

NoGuard == [pc |-> "unmounted", isAuthenticated |-> FALSE, loading |-> TRUE, token |-> NoToken, now |-> 0, response |-> "none", redirected |-> FALSE]

\* no token stored and no guarded page mounted
GuardIdle ==
    /\ localToken = NoToken
    /\ authCache = NoAuthCache
    /\ clock = 0
    /\ guard = NoGuard

PageIdle ==
    /\ ServerIdle
    /\ GuardIdle
    /\ privateKey = [prefix0x |-> TRUE, len |-> KEY_HEX_LEN, hex |-> TRUE]
    /\ recipient = [base58 |-> TRUE, bytes |-> PUBKEY_BYTES]
    /\ amount = <<>>
    /\ loading = FALSE
    /\ steps = <<>>
    /\ error = FALSE
    /\ result = [success |-> FALSE, signatures |-> <<>>, burnerAddresses |-> <<>>, matchedAmounts |-> <<>>]

RunIdle ==
    /\ amountLamports = 0
    /\ delayMs = 0
    /\ matchedAmounts = <<>>
    /\ burnerWallets = <<>>
    /\ withdrawalAmounts = <<>>
    /\ signatures = <<>>
    /\ i = 0
    /\ failedStep = 0
    /\ updates = <<>>
    /\ calls = <<>>

WorldIdle ==
    /\ swigs = {}
    /\ balance = 0
    /\ ticks = 0

----------------------------------------------------------------------------
(* Input validation (executePrivateSend, lines 625-644) *)

\* a key string: whether it starts with "0x", how many characters follow
\* that prefix (or form the whole string), and whether all are hex digits
FormatKey(key) == [key EXCEPT !.prefix0x = TRUE]

isValidPrivateKey(key) == LET formatted == FormatKey(key) IN formatted.len = KEY_HEX_LEN /\ formatted.hex

\* new PublicKey(address) accepts a base-58 string that decodes to 32 bytes
isValidSolanaAddress(address) == address.base58 /\ address.bytes = PUBKEY_BYTES

\* !amount || parseFloat(amount) <= 0   (NaN <= 0 is false)
AmountRejected(amt) == Len(amt) = 0 \/ (~parseFloat(amt).nan /\ parseFloat(amt).mant <= 0)

ChunksRejected(n) == n < MIN_CHUNKS \/ n > MAX_CHUNKS

ValidationPasses(key, address, amt, n) ==
    /\ isValidPrivateKey(FormatKey(key))
    /\ isValidSolanaAddress(address)
    /\ ~AmountRejected(amt)
    /\ ~ChunksRejected(n)

----------------------------------------------------------------------------
(* Status updates and the page's step list *)

Upd(k, st) == [step |-> k, status |-> st]

Pending(k) == Upd(k, "pending")

generateSteps(n) ==
    <<Pending(1), Pending(2), Pending(3), Pending(4), Pending(5), Pending(6), Pending(7), Pending(8), Pending(9)>>

\* setSteps(prev => prev.map(s => s.step === update.step ? update : s))
updateStep(list, update) == [s \in DOMAIN list |-> IF list[s].step = update.step THEN update ELSE list[s]]

\* updateStep applied to the updates us one after the other: an update keeps
\* the step number of the entry it replaces, so that each entry ends as the
\* last update of its step number, or as it was
ApplyUpdates(list, us) ==
    [s \in DOMAIN list |->
        LET hits == {j \in 1..Len(us) : updateStep(<<list[s]>>, us[j]) = <<us[j]>>}
        IN  IF hits = {} THEN list[s] ELSE us[CHOOSE j \in hits : \A h \in hits : h <= j]]

MarkRunningAsError_Unchanged(list) == list

\* setSteps(prev => prev.map(s => s.status === 'running' ? {...s, status: 'error'} : s))
MarkRunningAsError(list) == [s \in DOMAIN list |-> IF list[s].status = "running" THEN Upd(list[s].step, "error") ELSE list[s]]

----------------------------------------------------------------------------
(* Collaborator calls *)

Nowhere == [kind |-> "none", id |-> 0]
Pool == [kind |-> "pool", id |-> 0]
Recipient == [kind |-> "recipient", id |-> 0]
Wallet(k) == [kind |-> "wallet", id |-> k]
TempAddress(k) == [kind |-> "temp", id |-> k]

\* key: the identity that signs (0: the main key, k: burner k);
\* tempIndex: the index of the temporary pool keypair derived from that key
Call(op, key, tempIndex, lamports, to) == [op |-> op, key |-> key, tempIndex |-> tempIndex, lamports |-> lamports, to |-> to]

JsAdd(a, b) == IF IsNaN(a) \/ IsNaN(b) THEN NaN ELSE a + b

JsLess(a, b) == ~IsNaN(a) /\ ~IsNaN(b) /\ a < b

\* ensureSwigWalletExists for identity k (lines 334-374).  lookupOk: fetchSwig
\* returned; any exception of fetchSwig, whatever its cause, leads to the
\* creation.  createOk: the creation transaction was accepted.
\* The ledger finds only a wallet that exists and creates only one that does not.
EnsurePossible(k, lookupOk, createOk) ==
    /\ lookupOk => k \in swigs
    /\ (~lookupOk /\ createOk) => k \notin swigs

EnsureUpdates(statusStep, lookupOk) == IF lookupOk THEN <<>> ELSE <<Upd(statusStep, "running")>>

EnsureCalls(k, lookupOk) ==
    <<Call("fetchSwig", k, 0, 0, Nowhere)>>
    \o (IF lookupOk THEN <<>> ELSE <<Call("createSwig", k, 0, 0, Nowhere)>>)

EnsureSwigs(k, lookupOk, createOk) == IF ~lookupOk /\ createOk THEN swigs \cup {k} ELSE swigs

EnsureReturns(lookupOk, createOk) == lookupOk \/ createOk

\* ensureSwigWalletExists followed by getSwigWalletInfo, for identity k:
\* the status text of a creation is reported under step statusStep.
\* "lookup_fails": the lookup of an existing wallet raised, and the creation
\* that followed was refused
ProvisionOutcomes == {"ready", "create_fails", "info_fails", "lookup_fails"}

ProvisionPossible(k, outcome) ==
    /\ outcome = "create_fails" => k \notin swigs
    /\ outcome = "lookup_fails" => k \in swigs

LookupOk(k, outcome) == k \in swigs /\ outcome # "lookup_fails"

CreateOk(outcome) == outcome \notin {"create_fails", "lookup_fails"}

ProvisionUpdates(k, statusStep, outcome) == EnsureUpdates(statusStep, LookupOk(k, outcome))

ProvisionCalls(k, outcome) ==
    EnsureCalls(k, LookupOk(k, outcome))
    \o (IF EnsureReturns(LookupOk(k, outcome), CreateOk(outcome)) THEN <<Call("fetchSwig", k, 0, 0, Nowhere)>> ELSE <<>>)

ProvisionSwigs(k, outcome) == EnsureSwigs(k, LookupOk(k, outcome), CreateOk(outcome))

\* depositToPoolWithSwig: two status texts, the transfer to the temporary
\* address, the pool deposit, a third status text
DepositOutcomes == {"ok", "transfer_fails", "deposit_fails"}

\* a transfer of NaN lamports cannot be encoded, and the ledger refuses a
\* transfer of more than the wallet holds (funds: what the wallet is known to
\* hold, or NaN when the run never read its balance)
DepositPossible(lamports, funds, outcome) ==
    (IsNaN(lamports) \/ JsLess(funds, JsAdd(lamports, TRANSFER_EXTRA))) => outcome = "transfer_fails"

DepositUpdates(step, outcome) ==
    <<Upd(step, "running"), Upd(step, "running")>> \o (IF outcome = "ok" THEN <<Upd(step, "running")>> ELSE <<>>)

DepositCalls(key, tempIndex, lamports, outcome) ==
    <<Call("transfer", key, tempIndex, JsAdd(lamports, TRANSFER_EXTRA), TempAddress(tempIndex))>>
    \o (IF outcome = "transfer_fails" THEN <<>> ELSE <<Call("deposit", key, tempIndex, lamports, Pool)>>)

\* withdrawFromPoolWithSwig: one status text, the pool withdrawal
WithdrawOutcomes == {"ok", "withdraw_fails"}

WithdrawUpdates(step) == <<Upd(step, "running")>>

WithdrawCalls(key, tempIndex, lamports, to) == <<Call("withdraw", key, tempIndex, lamports, to)>>

\* lines 734-741: equal shares, the remainder on the last one (k from 1)
EqualShare_NoRemainder(total, n, k) == total \div n

\* (a variant that hands out the amounts matched to the pool history)
EqualShare_Matched(total, n, k) == matchedAmounts[k]

\* (a variant that rounds every share up)
EqualShare_RoundedUp(total, n, k) == (total + n - 1) \div n

EqualShare(total, n, k) ==
    LET chunkAmount == total \div n
        remainder == total % n
    IN  IF k = n THEN chunkAmount + remainder ELSE chunkAmount

\* (a variant that compares the balance with the amount alone)
BalanceTooLow_NoBuffer(bal, lamports) == JsLess(bal, lamports)

\* lines 671-672: balance < amountLamports + 1000000
BalanceTooLow(bal, lamports) ==
    LET requiredBalance == JsAdd(lamports, BALANCE_BUFFER)
    IN  JsLess(bal, requiredBalance)

----------------------------------------------------------------------------
(* The page and one run of executePrivateSend *)

AmountInputs ==
    { <<>>,
      <<"a", "b", "c">>,
      <<"0">>,
      <<"-", "1">>,
      <<"0", ".", "0", "0", "0", "0", "0", "0", "0", "0", "0", "1">>,
      <<"0", ".", "0", "0", "0", "0", "0", "0", "0", "0", "7">>,
      <<".", "0", "0", "0", "0", "0", "0", "0", "2">> }

KeyInputs ==
    { [prefix0x |-> FALSE, len |-> KEY_HEX_LEN, hex |-> TRUE],
      [prefix0x |-> TRUE, len |-> KEY_HEX_LEN - 1, hex |-> TRUE],
      [prefix0x |-> FALSE, len |-> KEY_HEX_LEN, hex |-> FALSE] }

AddressInputs ==
    { [base58 |-> TRUE, bytes |-> PUBKEY_BYTES],
      [base58 |-> TRUE, bytes |-> PUBKEY_BYTES - 1],
      [base58 |-> FALSE, bytes |-> 0] }

\* the ledger of a run: the first transfers of the sequence 3, 2, 1, 3, 2, 1, ...
RunTransfers == {[j \in 1..len |-> 1 + ((2 * j) % 3)] : len \in 0..MaxRunHistLen}

\* an empty wallet, one that just fails the balance check, one that just
\* passes it, one that also covers what a deposit moves out of it
Balances(lamports) == {0, lamports + BALANCE_BUFFER - 1, lamports + BALANCE_BUFFER, lamports + TRANSFER_EXTRA}

\* the identities whose Swig wallet does not exist yet: among 0..MaxFresh
MissingSets(n) == SUBSET (0..Min(n, MaxFresh))

NoResult == [success |-> FALSE, signatures |-> <<>>, burnerAddresses |-> <<>>, matchedAmounts |-> <<>>]

Init ==
    /\ pc = "idle"
    /\ privateKey \in KeyInputs
    /\ recipient \in AddressInputs
    /\ amount \in AmountInputs
    /\ numChunks \in ChunkInputs
    /\ loading = FALSE
    /\ steps = generateSteps(numChunks)
    /\ error = FALSE
    /\ result = NoResult
    /\ LET valid == ValidationPasses(privateKey, recipient, amount, numChunks)
           lamports == IF IsNaN(ToLamports(amount)) THEN 0 ELSE ToLamports(amount)
       IN  /\ ledgerDeposits \in (IF valid THEN RunTransfers ELSE {<<>>})
           /\ swigs \in (IF valid THEN {(0..numChunks) \ M : M \in MissingSets(numChunks)} ELSE {{}})
           /\ balance \in (IF valid THEN Balances(lamports) ELSE {0})
    /\ ticks = 0
    /\ amountLamports = 0
    /\ delayMs = 0
    /\ previousAmounts = <<>>
    /\ matchedAmounts = <<>>
    /\ burnerWallets = <<>>
    /\ withdrawalAmounts = <<>>
    /\ signatures = <<>>
    /\ i = 0
    /\ failedStep = 0
    /\ updates = <<>>
    /\ calls = <<>>
    /\ totalAmount = 0
    /\ plan = NoPlan
    /\ schedule = NoSchedule
    /\ ServerIdle
    /\ GuardIdle

\* (a variant that opens the next step before it closes the current one)
StepBoundary_Swapped(k) == <<Upd(k + 1, "running"), Upd(k, "completed")>>

\* step k is reported 'completed', then step k + 1 'running'
\* (lines 651-654, 676-679, 687-690, 727-731, 786-789)
StepBoundary(k) == <<Upd(k, "completed"), Upd(k + 1, "running")>>

\* onStepUpdate(u) for each u of us, in order: the update is recorded and
\* the page's updateStep applies it to the step list
Emit(us) ==
    /\ updates' = updates \o us
    /\ steps' = ApplyUpdates(steps, us)

\* (a variant that stays in the step, so that the failed call is issued again)
Throw_Retry(k) ==
    /\ pc' = pc
    /\ failedStep' = k

\* an exception leaves executePrivateSend while its step k is in progress
Throw(k) ==
    /\ pc' = "thrown"
    /\ failedStep' = k

inputVars == <<privateKey, recipient, amount, numChunks, serverVars, guardVars>>
uiVars == <<loading, error, result>>

\* handleSubmit up to the call of executePrivateSend (lines 876-884)
HandleSubmit ==
    /\ pc = "idle"
    /\ loading' = TRUE
    /\ error' = FALSE
    /\ result' = NoResult
    /\ steps' = generateSteps(numChunks)
    /\ pc' = "validate"
    /\ UNCHANGED <<inputVars, amountLamports, delayMs, previousAmounts, matchedAmounts, burnerWallets, withdrawalAmounts, signatures, i, failedStep, obsVars, worldVars, pureVars>>

\* lines 624-644, a validation failing
ValidationFails ==
    /\ pc = "validate"
    /\ amountLamports' = ToLamports(amount)
    /\ delayMs' = calculateDelayMs(numChunks)
    /\ ~ValidationPasses(privateKey, recipient, amount, numChunks)
    /\ Throw(0)
    /\ UNCHANGED <<inputVars, uiVars, steps, previousAmounts, matchedAmounts, burnerWallets, withdrawalAmounts, signatures, i, obsVars, worldVars, pureVars>>

\* lines 624-647, every validation passing
Enter ==
    /\ pc = "validate"
    /\ amountLamports' = ToLamports(amount)
    /\ delayMs' = calculateDelayMs(numChunks)
    /\ ValidationPasses(privateKey, recipient, amount, numChunks)
    /\ Emit(<<Upd(1, "running")>>)
    /\ pc' = "step1"
    /\ UNCHANGED <<inputVars, uiVars, previousAmounts, matchedAmounts, burnerWallets, withdrawalAmounts, signatures, i, failedStep, calls, worldVars, pureVars>>

\* step 1 (lines 648-654): a failing history query is caught inside
\* getPreviousDepositAmounts and yields an empty history
QueryHistory(queryOk, seed) ==
    /\ pc = "step1"
    /\ LET prev == getPreviousDepositAmounts(ledgerDeposits, queryOk)
       IN  /\ previousAmounts' = prev
           /\ matchedAmounts' = matchChunksToPreviousDeposits(amountLamports, numChunks, prev, seed).amounts
    /\ calls' = Append(calls, Call("history", 0, 0, 0, Nowhere))
    /\ Emit(StepBoundary(1))
    /\ pc' = "setup_main"
    /\ UNCHANGED <<inputVars, uiVars, amountLamports, delayMs, burnerWallets, withdrawalAmounts, signatures, i, failedStep, worldVars, pureVars>>

\* step 2 (lines 656-676), the main wallet ready and the balance sufficient
SetupMain ==
    /\ pc = "setup_main"
    /\ ~BalanceTooLow(balance, amountLamports)
    /\ calls' = calls \o ProvisionCalls(0, "ready") \o <<Call("getBalance", 0, 0, 0, Nowhere)>>
    /\ swigs' = ProvisionSwigs(0, "ready")
    /\ Emit(ProvisionUpdates(0, 2, "ready") \o StepBoundary(2))
    /\ pc' = "deposit_main"
    /\ UNCHANGED <<inputVars, uiVars, amountLamports, delayMs, previousAmounts, matchedAmounts, burnerWallets, withdrawalAmounts, signatures, i, failedStep, ledgerDeposits, balance, ticks, pureVars>>

\* step 2, the creation or the lookup of the main wallet failing
SetupMainFails(outcome) ==
    /\ pc = "setup_main"
    /\ outcome # "ready"
    /\ ProvisionPossible(0, outcome)
    /\ calls' = calls \o ProvisionCalls(0, outcome)
    /\ swigs' = ProvisionSwigs(0, outcome)
    /\ Emit(ProvisionUpdates(0, 2, outcome))
    /\ Throw(2)
    /\ UNCHANGED <<inputVars, uiVars, amountLamports, delayMs, previousAmounts, matchedAmounts, burnerWallets, withdrawalAmounts, signatures, i, ledgerDeposits, balance, ticks, pureVars>>

\* step 2, the balance below amountLamports + 1000000 (lines 668-674)
InsufficientBalance ==
    /\ pc = "setup_main"
    /\ BalanceTooLow(balance, amountLamports)
    /\ calls' = calls \o ProvisionCalls(0, "ready") \o <<Call("getBalance", 0, 0, 0, Nowhere)>>
    /\ swigs' = ProvisionSwigs(0, "ready")
    /\ Emit(ProvisionUpdates(0, 2, "ready"))
    /\ Throw(2)
    /\ UNCHANGED <<inputVars, uiVars, amountLamports, delayMs, previousAmounts, matchedAmounts, burnerWallets, withdrawalAmounts, signatures, i, ledgerDeposits, balance, ticks, pureVars>>

\* step 3 (lines 679-690): the deposit of the whole amount from the main wallet
DepositMain ==
    /\ pc = "deposit_main"
    /\ DepositPossible(amountLamports, balance, "ok")
    /\ calls' = calls \o DepositCalls(0, 0, amountLamports, "ok")
    /\ signatures' = Append(signatures, <<"deposit", 0>>)
    /\ Emit(DepositUpdates(3, "ok") \o StepBoundary(3))
    /\ pc' = "index_wait1"
    /\ UNCHANGED <<inputVars, uiVars, amountLamports, delayMs, previousAmounts, matchedAmounts, burnerWallets, withdrawalAmounts, i, failedStep, worldVars, pureVars>>

DepositMainFails(outcome) ==
    /\ pc = "deposit_main"
    /\ outcome # "ok"
    /\ DepositPossible(amountLamports, balance, outcome)
    /\ calls' = calls \o DepositCalls(0, 0, amountLamports, outcome)
    /\ Emit(DepositUpdates(3, outcome))
    /\ Throw(3)
    /\ UNCHANGED <<inputVars, uiVars, amountLamports, delayMs, previousAmounts, matchedAmounts, burnerWallets, withdrawalAmounts, signatures, i, worldVars, pureVars>>

\* the update that opens step 6 (line 703)
OpenBurnerSetup == <<Upd(6, "running")>>

\* step 4 (lines 691-692) and, with no delay, the entry of step 6
IndexWait1 ==
    /\ pc = "index_wait1"
    /\ IF delayMs > 0
       THEN /\ Emit(<<Upd(4, "completed")>>)
            /\ pc' = "sleep1"
            /\ i' = i
       ELSE /\ Emit(<<Upd(4, "completed")>> \o OpenBurnerSetup)
            /\ pc' = "burners"
            /\ i' = 1
    /\ ticks' = 0
    /\ UNCHANGED <<inputVars, uiVars, amountLamports, delayMs, previousAmounts, matchedAmounts, burnerWallets, withdrawalAmounts, signatures, failedStep, calls, ledgerDeposits, swigs, balance, pureVars>>

\* the update that closes a privacy delay (lines 699 and 798)
SleepCompleted_StillRunning(k) == <<Upd(k, "running")>>

SleepCompleted(k) == <<Upd(k, "completed")>>

\* (a variant whose clock never reaches endTime)
Elapsed_Never(turns) == FALSE

\* the loop test of sleepWithCountdown (line 607), Date.now() < endTime, turns
\* false: ms > 0, so not before the first turn of the loop
Elapsed(turns) == turns >= 1

\* one turn of the loop of sleepWithCountdown (lines 607-611) in step 5 or 10
SleepTick(sleepPc, k) ==
    /\ pc = sleepPc
    /\ ticks < MaxCountdown
    /\ ticks' = ticks + 1
    /\ Emit(<<Upd(k, "running")>>)
    /\ UNCHANGED <<inputVars, uiVars, runVars, calls, ledgerDeposits, swigs, balance, pureVars>>

\* the end of the first sleep (line 699) and the entry of step 6
Sleep1Ends ==
    /\ pc = "sleep1"
    /\ Elapsed(ticks)
    /\ Emit(SleepCompleted(5) \o OpenBurnerSetup)
    /\ pc' = "burners"
    /\ i' = 1
    /\ UNCHANGED <<inputVars, uiVars, amountLamports, delayMs, previousAmounts, matchedAmounts, burnerWallets, withdrawalAmounts, signatures, failedStep, calls, worldVars, pureVars>>

\* (a variant whose loop starts at index 0)
deriveBurnerPrivateKey_Shifted(mainPrivateKey, index) == [master |-> FormatKey(mainPrivateKey), index |-> index - 1]

\* deriveBurnerPrivateKey (lines 227-235): keccak256 of the signature, by the
\* formatted main key, of the message "swig_burner_wallet_<index>_<address>";
\* kept as the term (key, index) it is computed from
deriveBurnerPrivateKey(mainPrivateKey, index) == [master |-> FormatKey(mainPrivateKey), index |-> index]

\* (a variant that gives every derived key the identity of the main key)
IdentityOf_Main(burnerKey) == 0

\* the identity of a derived key among the identities of the run (0: the
\* main key), which also names its Swig wallet
IdentityOf(burnerKey) == burnerKey.index

\* the step under which step 6 reports the creation of a burner wallet (line 714)
BurnerStatusStep == 5

\* step 6 (lines 707-727): burner i derived and provisioned
SetupBurner ==
    /\ pc = "burners"
    /\ LET burnerKey == deriveBurnerPrivateKey(privateKey, i)
           id == IdentityOf(burnerKey)
       IN  /\ calls' = calls \o ProvisionCalls(id, "ready")
           /\ swigs' = ProvisionSwigs(id, "ready")
           /\ burnerWallets' = Append(burnerWallets, [key |-> burnerKey, walletAddress |-> id])
           /\ IF i < numChunks
              THEN Emit(ProvisionUpdates(id, BurnerStatusStep, "ready"))
              ELSE Emit(ProvisionUpdates(id, BurnerStatusStep, "ready") \o StepBoundary(6))
    /\ IF i < numChunks
       THEN /\ i' = i + 1
            /\ pc' = pc
       ELSE /\ i' = 1
            /\ pc' = "withdraw_burners"
    /\ UNCHANGED <<inputVars, uiVars, amountLamports, delayMs, previousAmounts, matchedAmounts, withdrawalAmounts, signatures, failedStep, ledgerDeposits, balance, ticks, pureVars>>

SetupBurnerFails(outcome) ==
    /\ pc = "burners"
    /\ outcome # "ready"
    /\ LET id == IdentityOf(deriveBurnerPrivateKey(privateKey, i))
       IN  /\ ProvisionPossible(id, outcome)
           /\ calls' = calls \o ProvisionCalls(id, outcome)
           /\ swigs' = ProvisionSwigs(id, outcome)
           /\ Emit(ProvisionUpdates(id, BurnerStatusStep, outcome))
    /\ Throw(6)
    /\ UNCHANGED <<inputVars, uiVars, amountLamports, delayMs, previousAmounts, matchedAmounts, burnerWallets, withdrawalAmounts, signatures, i, ledgerDeposits, balance, ticks, pureVars>>

\* step 7 (lines 738-758): the withdrawal of share i to burner i
WithdrawToBurner ==
    /\ pc = "withdraw_burners"
    /\ LET share == EqualShare(amountLamports, numChunks, i)
       IN  /\ withdrawalAmounts' = Append(withdrawalAmounts, share)
           /\ calls' = calls \o WithdrawCalls(0, 0, share, Wallet(burnerWallets[i].walletAddress))
    /\ signatures' = Append(signatures, <<"withdraw", i>>)
    /\ IF i < numChunks
       THEN /\ Emit(<<Upd(7, "running")>> \o WithdrawUpdates(7))
            /\ i' = i + 1
            /\ pc' = pc
       ELSE /\ Emit(<<Upd(7, "running")>> \o WithdrawUpdates(7) \o <<Upd(7, "completed")>>)
            /\ i' = i
            /\ pc' = "confirm_wait"
    /\ UNCHANGED <<inputVars, uiVars, amountLamports, delayMs, previousAmounts, matchedAmounts, burnerWallets, failedStep, worldVars, pureVars>>

WithdrawToBurnerFails ==
    /\ pc = "withdraw_burners"
    /\ LET share == EqualShare(amountLamports, numChunks, i)
       IN  /\ withdrawalAmounts' = Append(withdrawalAmounts, share)
           /\ calls' = calls \o WithdrawCalls(0, 0, share, Wallet(burnerWallets[i].walletAddress))
    /\ Emit(<<Upd(7, "running")>> \o WithdrawUpdates(7))
    /\ Throw(7)
    /\ UNCHANGED <<inputVars, uiVars, amountLamports, delayMs, previousAmounts, matchedAmounts, burnerWallets, signatures, i, worldVars, pureVars>>

\* the wait for confirmations (line 761) and the entry of step 8 (line 765)
ConfirmWait ==
    /\ pc = "confirm_wait"
    /\ Emit(<<Upd(8, "running")>>)
    /\ i' = 1
    /\ pc' = "deposit_burners"
    /\ UNCHANGED <<inputVars, uiVars, amountLamports, delayMs, previousAmounts, matchedAmounts, burnerWallets, withdrawalAmounts, signatures, failedStep, calls, worldVars, pureVars>>

\* step 8 (lines 767-789): the deposit of burner i's share from its wallet
DepositFromBurner ==
    /\ pc = "deposit_burners"
    /\ DepositPossible(withdrawalAmounts[i], NaN, "ok")
    /\ calls' = calls \o DepositCalls(IdentityOf(burnerWallets[i].key), i, withdrawalAmounts[i], "ok")
    /\ signatures' = Append(signatures, <<"deposit", i>>)
    /\ IF i < numChunks
       THEN /\ Emit(<<Upd(8, "running")>> \o DepositUpdates(8, "ok"))
            /\ i' = i + 1
            /\ pc' = pc
       ELSE /\ Emit(<<Upd(8, "running")>> \o DepositUpdates(8, "ok") \o StepBoundary(8))
            /\ i' = i
            /\ pc' = "index_wait2"
    /\ UNCHANGED <<inputVars, uiVars, amountLamports, delayMs, previousAmounts, matchedAmounts, burnerWallets, withdrawalAmounts, failedStep, worldVars, pureVars>>

DepositFromBurnerFails(outcome) ==
    /\ pc = "deposit_burners"
    /\ outcome # "ok"
    /\ DepositPossible(withdrawalAmounts[i], NaN, outcome)
    /\ calls' = calls \o DepositCalls(IdentityOf(burnerWallets[i].key), i, withdrawalAmounts[i], outcome)
    /\ Emit(<<Upd(8, "running")>> \o DepositUpdates(8, outcome))
    /\ Throw(8)
    /\ UNCHANGED <<inputVars, uiVars, amountLamports, delayMs, previousAmounts, matchedAmounts, burnerWallets, withdrawalAmounts, signatures, i, worldVars, pureVars>>

\* the update that opens step 11 (line 803)
OpenFinalWithdraw == <<Upd(11, "running")>>

\* step 9 (lines 790-791) and, with no delay, the entry of step 11
IndexWait2 ==
    /\ pc = "index_wait2"
    /\ IF delayMs > 0
       THEN /\ Emit(<<Upd(9, "completed")>>)
            /\ pc' = "sleep2"
            /\ i' = i
       ELSE /\ Emit(<<Upd(9, "completed")>> \o OpenFinalWithdraw)
            /\ pc' = "withdraw_final"
            /\ i' = 1
    /\ ticks' = 0
    /\ UNCHANGED <<inputVars, uiVars, amountLamports, delayMs, previousAmounts, matchedAmounts, burnerWallets, withdrawalAmounts, signatures, failedStep, calls, ledgerDeposits, swigs, balance, pureVars>>

\* the end of the second sleep (line 798) and the entry of step 11
Sleep2Ends ==
    /\ pc = "sleep2"
    /\ Elapsed(ticks)
    /\ Emit(SleepCompleted(10) \o OpenFinalWithdraw)
    /\ pc' = "withdraw_final"
    /\ i' = 1
    /\ UNCHANGED <<inputVars, uiVars, amountLamports, delayMs, previousAmounts, matchedAmounts, burnerWallets, withdrawalAmounts, signatures, failedStep, calls, worldVars, pureVars>>

\* (a variant that withdraws the amount the planner matched for the burner)
FinalAmount_Matched(k) == matchedAmounts[k]

\* line 807: the amount of the final withdrawal of burner k
FinalAmount(k) == withdrawalAmounts[k]

\* step 11 (lines 805-824): the withdrawal of burner i's share to the recipient
WithdrawFinal ==
    /\ pc = "withdraw_final"
    /\ calls' = calls \o WithdrawCalls(IdentityOf(burnerWallets[i].key), i, FinalAmount(i), Recipient)
    /\ signatures' = Append(signatures, <<"withdraw_final", i>>)
    /\ IF i < numChunks
       THEN /\ Emit(<<Upd(11, "running")>> \o WithdrawUpdates(11))
            /\ i' = i + 1
            /\ pc' = pc
       ELSE /\ Emit(<<Upd(11, "running")>> \o WithdrawUpdates(11) \o <<Upd(11, "completed")>>)
            /\ i' = i
            /\ pc' = "returned"
    /\ UNCHANGED <<inputVars, uiVars, amountLamports, delayMs, previousAmounts, matchedAmounts, burnerWallets, withdrawalAmounts, failedStep, worldVars, pureVars>>

WithdrawFinalFails ==
    /\ pc = "withdraw_final"
    /\ calls' = calls \o WithdrawCalls(IdentityOf(burnerWallets[i].key), i, FinalAmount(i), Recipient)
    /\ Emit(<<Upd(11, "running")>> \o WithdrawUpdates(11))
    /\ Throw(11)
    /\ UNCHANGED <<inputVars, uiVars, amountLamports, delayMs, previousAmounts, matchedAmounts, burnerWallets, withdrawalAmounts, signatures, i, worldVars, pureVars>>

\* the result of executePrivateSend (lines 826-833) reaches handleSubmit
\* (lines 891, 898-900)
RunReturns ==
    /\ pc = "returned"
    /\ result' = [success |-> TRUE, signatures |-> signatures,
                  burnerAddresses |-> [k \in DOMAIN burnerWallets |-> burnerWallets[k].walletAddress],
                  matchedAmounts |-> matchedAmounts]
    /\ loading' = FALSE
    /\ pc' = "done"
    /\ UNCHANGED <<inputVars, steps, error, amountLamports, delayMs, previousAmounts, matchedAmounts, burnerWallets, withdrawalAmounts, signatures, i, failedStep, obsVars, worldVars, pureVars>>

\* the exception of executePrivateSend reaches handleSubmit (lines 892-900)
CatchError ==
    /\ pc = "thrown"
    /\ error' = TRUE
    /\ steps' = MarkRunningAsError(steps)
    /\ loading' = FALSE
    /\ pc' = "done"
    /\ UNCHANGED <<inputVars, result, amountLamports, delayMs, previousAmounts, matchedAmounts, burnerWallets, withdrawalAmounts, signatures, i, failedStep, obsVars, worldVars, pureVars>>

Next ==
    \/ HandleSubmit
    \/ ValidationFails
    \/ Enter
    \/ \E queryOk \in BOOLEAN, seed \in 0..MaxSeed : QueryHistory(queryOk, seed)
    \/ SetupMain
    \/ \E outcome \in ProvisionOutcomes : SetupMainFails(outcome)
    \/ InsufficientBalance
    \/ DepositMain
    \/ \E outcome \in DepositOutcomes : DepositMainFails(outcome)
    \/ IndexWait1
    \/ SleepTick("sleep1", 5)
    \/ Sleep1Ends
    \/ SetupBurner
    \/ \E outcome \in ProvisionOutcomes : SetupBurnerFails(outcome)
    \/ WithdrawToBurner
    \/ WithdrawToBurnerFails
    \/ ConfirmWait
    \/ DepositFromBurner
    \/ \E outcome \in DepositOutcomes : DepositFromBurnerFails(outcome)
    \/ IndexWait2
    \/ SleepTick("sleep2", 10)
    \/ Sleep2Ends
    \/ WithdrawFinal
    \/ WithdrawFinalFails
    \/ RunReturns
    \/ CatchError

Spec == Init /\ [][Next]_vars

----------------------------------------------------------------------------
(* Properties of a run of executePrivateSend (Spec) *)

RunSucceeded == pc = "returned" \/ (pc = "done" /\ result.success)

RunRaised == pc = "thrown" \/ (pc = "done" /\ error)

Last(seq) == seq[Len(seq)]

Lamports(seq) == [k \in DOMAIN seq |-> seq[k].lamports]

IsWithdrawToBurner(c) == c.op = "withdraw" /\ c.to.kind = "wallet"

IsDepositFromBurner(c) == c.op = "deposit" /\ c.key >= 1

IsWithdrawToRecipient(c) == c.op = "withdraw" /\ c.to = Recipient

\* the positions of the updates of step k with status st
UpdatesAt(k, st) == {j \in 1..Len(updates) : updates[j] = Upd(k, st)}

\* C1: in a successful run the amounts withdrawn to the burners (step 7),
\* deposited from the burners (step 8) and withdrawn to the recipient
\* (step 11) each sum to the total amount in lamports, the remainder of the
\* integer division being carried by the last burner.
C1_AmountConservation ==
    RunSucceeded =>
        /\ SumSeq(Lamports(SelectSeq(calls, IsWithdrawToBurner))) = amountLamports
        /\ SumSeq(Lamports(SelectSeq(calls, IsDepositFromBurner))) = amountLamports
        /\ SumSeq(Lamports(SelectSeq(calls, IsWithdrawToRecipient))) = amountLamports
        /\ \A k \in 1..(numChunks - 1) : withdrawalAmounts[k] = amountLamports \div numChunks
        /\ withdrawalAmounts[numChunks] = (amountLamports \div numChunks) + (amountLamports % numChunks)

\* a successful run of 7 lamports through 3 burners: shares 2, 2 and 3
C1_Witness ==
    /\ RunSucceeded
    /\ amountLamports = 7
    /\ numChunks = 3
    /\ Lamports(SelectSeq(calls, IsWithdrawToBurner)) = <<2, 2, 3>>
    /\ Lamports(SelectSeq(calls, IsWithdrawToRecipient)) = <<2, 2, 3>>

AmountNotPositive(amt) == parseFloat(amt).nan \/ parseFloat(amt).mant <= 0

\* C4: when the private key is malformed, the recipient is no valid address,
\* the amount is not > 0 or numChunks is outside [MIN_CHUNKS, MAX_CHUNKS],
\* executePrivateSend raises before any external call and any status update.
C4_FailFast ==
    ( /\ pc \notin {"idle", "validate"}
      /\ \/ ~isValidPrivateKey(privateKey)
         \/ ~isValidSolanaAddress(recipient)
         \/ AmountNotPositive(amount)
         \/ numChunks < MIN_CHUNKS
         \/ numChunks > MAX_CHUNKS )
    => /\ RunRaised
       /\ failedStep = 0
       /\ updates = <<>>
       /\ calls = <<>>

\* C5: once a step k has failed, no further collaborator call is issued and
\* no further status update is emitted, no update of the run is for a step
\* after k, and the failure reaches the caller.
C5_StopOnFirstFailure ==
    /\ [](failedStep > 0 => RunRaised /\ \A j \in 1..Len(updates) : updates[j].step <= failedStep)
    /\ [][failedStep > 0 => calls' = calls /\ updates' = updates /\ error']_vars

\* the pool deposit of step 3 failed: steps 4 to 11 were never entered
C5_Witness ==
    /\ pc = "done"
    /\ error
    /\ failedStep = 3
    /\ Last(calls).op = "deposit"
    /\ Len(signatures) = 0
    /\ \A k \in 4..9 : steps[k].status = "pending"

\* a call to a collaborator failed (not the balance check of step 2)
CollaboratorFailed == failedStep > 0 /\ Last(calls).op # "getBalance"

RunningThenCompletedOnce(k) ==
    /\ Cardinality(UpdatesAt(k, "completed")) = 1
    /\ \E r \in UpdatesAt(k, "running") : \A c \in UpdatesAt(k, "completed") : r < c

\* C7 as stated: in a successful run each of the 11 steps is reported
\* 'running' at least once and then 'completed' exactly once.
C7_AsStated == RunSucceeded => \A k \in 1..11 : RunningThenCompletedOnce(k)

\* C7 as amended: the same for every step but 5 and 10, and for steps 5 and
\* 10 when the delay is positive (numChunks > MIN_CHUNKS); with
\* numChunks = MIN_CHUNKS steps 5 and 10 are skipped and never 'completed'.
C7_StatusProtocol ==
    RunSucceeded =>
        /\ \A k \in (1..11) \ {5, 10} : RunningThenCompletedOnce(k)
        /\ numChunks > MIN_CHUNKS => RunningThenCompletedOnce(5) /\ RunningThenCompletedOnce(10)
        /\ numChunks = MIN_CHUNKS => UpdatesAt(5, "completed") = {} /\ UpdatesAt(10, "completed") = {}

\* a successful run with a delay whose countdown of step 10 reported twice
C7_Witness ==
    /\ RunSucceeded
    /\ numChunks > MIN_CHUNKS
    /\ Cardinality(UpdatesAt(10, "running")) = 2
    /\ Cardinality(UpdatesAt(10, "completed")) = 1

\* C8: once a step is reported 'completed', no later update reports the same
\* step as 'running' or 'pending'.
C8_NeverBackward ==
    \A c, r \in 1..Len(updates) :
        (c < r /\ updates[c].status = "completed" /\ updates[r].step = updates[c].step)
            => updates[r].status \notin {"running", "pending"}

\* the run has read the balance of the main wallet
BalanceRead == \E j \in 1..Len(calls) : calls[j].op = "getBalance"

\* C11: when the balance of the main wallet is below the amount plus the
\* buffer of 1000000 lamports, the run raises during step 2, step 2 is never
\* reported 'completed', and the run makes no transfer, no pool deposit, no
\* pool withdrawal and no derivation or provisioning of a burner wallet.
C11_InsufficientBalanceStops ==
    (BalanceRead /\ ~IsNaN(amountLamports) /\ balance < amountLamports + BALANCE_BUFFER) =>
        /\ RunRaised
        /\ failedStep = 2
        /\ UpdatesAt(2, "completed") = {}
        /\ \A j \in 1..Len(updates) : updates[j].step <= 2
        /\ \A j \in 1..Len(calls) : calls[j].op \notin {"transfer", "deposit", "withdraw"} /\ calls[j].key = 0
        /\ burnerWallets = <<>>
        /\ signatures = <<>>

\* the main wallet was created in step 2 and holds one lamport less than required
C11_Witness ==
    /\ pc = "done"
    /\ error
    /\ failedStep = 2
    /\ amountLamports = 7
    /\ balance = amountLamports + BALANCE_BUFFER - 1
    /\ Last(calls).op = "getBalance"
    /\ \E j \in 1..Len(calls) : calls[j].op = "createSwig"
    /\ steps[2].status = "error"

\* the calls a step appends to the log
NewCalls == SubSeq(calls', Len(calls) + 1, Len(calls'))

\* C13: in a successful run exactly numChunks pool withdrawals go to the
\* recipient; the k-th is signed by burner k, with the temporary keypair of
\* index k, for the amount burner k received in step 7 and deposited in
\* step 8; each is issued while step 11 is running, after step 9 (and step
\* 10, when there is a delay) was completed; and every withdrawal of a run
\* goes to a burner wallet of that run or to the recipient.
C13_FinalWithdrawals ==
    /\ [](RunSucceeded =>
            LET toBurner == SelectSeq(calls, IsWithdrawToBurner)
                fromBurner == SelectSeq(calls, IsDepositFromBurner)
                final == SelectSeq(calls, IsWithdrawToRecipient)
            IN  /\ Len(final) = numChunks
                /\ Len(toBurner) = numChunks
                /\ Len(fromBurner) = numChunks
                /\ \A k \in 1..numChunks :
                      /\ final[k].key = IdentityOf(burnerWallets[k].key)
                      /\ final[k].key = k
                      /\ final[k].tempIndex = k
                      /\ toBurner[k].to = Wallet(burnerWallets[k].walletAddress)
                      /\ fromBurner[k].key = k
                      /\ final[k].lamports = toBurner[k].lamports
                      /\ final[k].lamports = fromBurner[k].lamports)
    /\ [](\A j \in 1..Len(calls) :
            calls[j].op = "withdraw" =>
                \/ calls[j].to = Recipient
                \/ \E k \in 1..Len(burnerWallets) : calls[j].to = Wallet(burnerWallets[k].walletAddress))
    /\ [][(\E j \in 1..Len(NewCalls) : IsWithdrawToRecipient(NewCalls[j])) =>
            /\ UpdatesAt(11, "running") # {}
            /\ UpdatesAt(11, "completed") = {}
            /\ UpdatesAt(9, "completed") # {}
            /\ delayMs > 0 => UpdatesAt(10, "completed") # {}]_vars

\* a successful run of 20 lamports through 3 burners, with a delay
C13_Witness ==
    /\ RunSucceeded
    /\ numChunks = 3
    /\ delayMs > 0
    /\ UpdatesAt(10, "completed") # {}
    /\ Lamports(SelectSeq(calls, IsWithdrawToRecipient)) = <<6, 6, 8>>
    /\ Lamports(SelectSeq(calls, IsDepositFromBurner)) = <<6, 6, 8>>

RECURSIVE Flatten(_)
Flatten(ss) == IF ss = <<>> THEN <<>> ELSE Head(ss) \o Flatten(Tail(ss))

IsPrefix(a, b) == Len(a) <= Len(b) /\ a = SubSeq(b, 1, Len(a))

\* the identities for which the run submitted a wallet creation
Created == {calls[j].key : j \in {j \in 1..Len(calls) : calls[j].op = "createSwig"}}

\* the calls of a complete run written from its arguments and from the
\* wallets it had to create alone: nothing here reads the pool history or
\* the amounts matched to it
HistoryFreeProvision(k, created) ==
    <<Call("fetchSwig", k, 0, 0, Nowhere)>>
    \o (IF k \in created THEN <<Call("createSwig", k, 0, 0, Nowhere)>> ELSE <<>>)
    \o <<Call("fetchSwig", k, 0, 0, Nowhere)>>

HistoryFreeShare(lamports, n, k) == (lamports \div n) + (IF k = n THEN lamports % n ELSE 0)

HistoryFreeCalls(lamports, n, created) ==
    <<Call("history", 0, 0, 0, Nowhere)>>
    \o HistoryFreeProvision(0, created)
    \o <<Call("getBalance", 0, 0, 0, Nowhere)>>
    \o <<Call("transfer", 0, 0, JsAdd(lamports, TRANSFER_EXTRA), TempAddress(0)), Call("deposit", 0, 0, lamports, Pool)>>
    \o Flatten([k \in 1..n |-> HistoryFreeProvision(k, created)])
    \o [k \in 1..n |-> Call("withdraw", 0, 0, HistoryFreeShare(lamports, n, k), Wallet(k))]
    \o Flatten([k \in 1..n |-> <<Call("transfer", k, k, HistoryFreeShare(lamports, n, k) + TRANSFER_EXTRA, TempAddress(k)),
                                 Call("deposit", k, k, HistoryFreeShare(lamports, n, k), Pool)>>])
    \o [k \in 1..n |-> Call("withdraw", k, k, HistoryFreeShare(lamports, n, k), Recipient)]

C15_BurnerDerivation ==
    /\ Len(burnerWallets) <= numChunks
    /\ \A k \in 1..Len(burnerWallets) :
          /\ burnerWallets[k].key = [master |-> [privateKey EXCEPT !.prefix0x = TRUE], index |-> k]
          /\ burnerWallets[k].walletAddress = k
    /\ \A a, b \in 1..Len(burnerWallets) : a # b => burnerWallets[a].key # burnerWallets[b].key
    /\ \A j \in 1..Len(calls) : calls[j].key \in 0..numChunks
    /\ (pc = "done" /\ result.success) => result.burnerAddresses = [k \in 1..numChunks |-> k]

\* a successful run through MAX_CHUNKS burners
C15_Witness ==
    /\ pc = "done"
    /\ result.success
    /\ numChunks = MAX_CHUNKS
    /\ Len(result.burnerAddresses) = MAX_CHUNKS
    /\ burnerWallets[MAX_CHUNKS].key.index = MAX_CHUNKS
    /\ burnerWallets[1].key.index = 1

\* C17: what step 8 moves out of the wallet of burner k (the transfer of
\* depositToPoolWithSwig, when it went through) is what step 7 moved into
\* it, so the net change of the wallet after step 8 is zero.
C17_BurnerDebitEqualsCredit ==
    LET toBurner == SelectSeq(calls, IsWithdrawToBurner)
    IN  \A j \in 1..(Len(calls) - 1) :
            (calls[j].op = "transfer" /\ calls[j].key >= 1 /\ calls[j + 1].op = "deposit") =>
                calls[j].lamports = toBurner[calls[j].key].lamports

\* the positions of the updates of step k
UpdatesOf(k) == {j \in 1..Len(updates) : updates[j].step = k}

\* a terminal status of step p is reported before the first update of step k
TerminalBeforeFirst(p, k) ==
    UpdatesOf(k) # {} =>
        \E c \in UpdatesOf(p) :
            /\ updates[c].status \in {"completed", "error"}
            /\ \A f \in UpdatesOf(k) : c < f

\* C18 as stated: for every k in 2..11 the first update of step k comes
\* after a terminal status (completed or error) of step k - 1.
C18_AsStated == \A k \in 2..11 : TerminalBeforeFirst(k - 1, k)

\* C18 as amended: the first update of step k comes after the 'completed'
\* of step k - 1, or, for k = 6 and k = 11 when there is no delay
\* (numChunks = MIN_CHUNKS, steps 5 and 10 skipped), of step k - 2.
C18_Sequential ==
    \A k \in 2..11 :
        LET before == IF k \in {6, 11} /\ delayMs = 0 THEN k - 2 ELSE k - 1
        IN  /\ TerminalBeforeFirst(before, k)
            /\ UpdatesOf(k) # {} => UpdatesAt(before, "completed") # {}

\* a successful run without delay: steps 6 and 11 followed steps 4 and 9
C18_Witness ==
    /\ RunSucceeded
    /\ numChunks = MIN_CHUNKS
    /\ UpdatesOf(5) = {}
    /\ UpdatesOf(10) = {}
    /\ UpdatesAt(6, "completed") # {}
    /\ UpdatesAt(11, "completed") # {}

----------------------------------------------------------------------------
(* The chunk planner on its own: the pool history is queried, then the     *)
(* total is split.                                                          *)

\* the transfer amounts found on the ledger, in ledger order: any order,
\* repeats and zero amounts included
Transfers(maxLen) == UNION {[1..len -> 0..MaxHistAmount] : len \in 0..maxLen}

InitPlan ==
    /\ pc = "plan_query"
    /\ totalAmount \in 1..MaxTotal
    /\ numChunks \in MIN_CHUNKS..MAX_CHUNKS
    /\ ledgerDeposits \in Transfers(MaxHistLen)
    /\ previousAmounts = <<>>
    /\ plan = NoPlan
    /\ schedule = NoSchedule
    /\ PageIdle /\ RunIdle /\ WorldIdle

PlanQuery ==
    /\ pc = "plan_query"
    /\ \E queryOk \in BOOLEAN : previousAmounts' = getPreviousDepositAmounts(ledgerDeposits, queryOk)
    /\ pc' = "plan_match"
    /\ UNCHANGED <<pageVars, amountLamports, delayMs, matchedAmounts, burnerWallets, withdrawalAmounts, signatures, i, failedStep, obsVars, worldVars, pureVars>>

PlanMatch ==
    /\ pc = "plan_match"
    /\ \E seed \in 0..MaxSeed : plan' = matchChunksToPreviousDeposits(totalAmount, numChunks, previousAmounts, seed)
    /\ pc' = "planned"
    /\ UNCHANGED <<pageVars, amountLamports, delayMs, previousAmounts, matchedAmounts, burnerWallets, withdrawalAmounts, signatures, i, failedStep, obsVars, worldVars, totalAmount, schedule>>

NextPlan == PlanQuery \/ PlanMatch

SpecPlan == InitPlan /\ [][NextPlan]_vars

----------------------------------------------------------------------------
(* The delay scheduler on its own: calculateDelayMs applied to one chunk   *)
(* count after another, the results kept in schedule.                       *)

InitSched ==
    /\ pc = "schedule"
    /\ schedule = NoSchedule
    /\ totalAmount = 0
    /\ numChunks = MIN_CHUNKS
    /\ ledgerDeposits = <<>>
    /\ previousAmounts = <<>>
    /\ plan = NoPlan
    /\ PageIdle /\ RunIdle /\ WorldIdle

Schedule(n) ==
    /\ pc = "schedule"
    /\ n \notin DOMAIN schedule
    /\ schedule' = [m \in DOMAIN schedule \cup {n} |-> IF m = n THEN calculateDelayMs(n) ELSE schedule[m]]
    /\ UNCHANGED <<pageVars, runVars, obsVars, worldVars, totalAmount, plan>>

NextSched == \E n \in ChunkInputs : Schedule(n)

SpecSched == InitSched /\ [][NextSched]_vars

----------------------------------------------------------------------------
(* The wallet provisioner on its own: ensureSwigWalletExists called for one *)
(* identity, again and again, whether the call before returned or raised.   *)

\* the ledger at the first call: no wallet, only the identity's wallet, every
\* wallet but the identity's, every wallet
EnsureLedgers(k) == {{}, {k}, (0..MAX_CHUNKS) \ {k}, 0..MAX_CHUNKS}

InitProvision ==
    /\ pc = "ensure"
    /\ i \in 0..MAX_CHUNKS
    /\ swigs \in EnsureLedgers(i)
    /\ ticks = 0
    /\ updates = <<>>
    /\ calls = <<>>
    /\ balance = 0
    /\ ledgerDeposits = <<>>
    /\ numChunks = MAX_CHUNKS
    /\ amountLamports = 0
    /\ delayMs = 0
    /\ previousAmounts = <<>>
    /\ matchedAmounts = <<>>
    /\ burnerWallets = <<>>
    /\ withdrawalAmounts = <<>>
    /\ signatures = <<>>
    /\ failedStep = 0
    /\ totalAmount = 0
    /\ plan = NoPlan
    /\ schedule = NoSchedule
    /\ PageIdle

\* one call ensureSwigWalletExists(connection, key of identity i, ...)
EnsureSwigWallet(lookupOk, createOk) ==
    /\ pc \in {"ensure", "ensured", "ensure_thrown"}
    /\ ticks < MaxEnsures
    /\ EnsurePossible(i, lookupOk, createOk)
    /\ calls' = calls \o EnsureCalls(i, lookupOk)
    /\ updates' = updates \o EnsureUpdates(IF i = 0 THEN 2 ELSE BurnerStatusStep, lookupOk)
    /\ swigs' = EnsureSwigs(i, lookupOk, createOk)
    /\ pc' = IF EnsureReturns(lookupOk, createOk) THEN "ensured" ELSE "ensure_thrown"
    /\ ticks' = ticks + 1
    /\ UNCHANGED <<pageVars, amountLamports, delayMs, previousAmounts, matchedAmounts, burnerWallets, withdrawalAmounts, signatures, i, failedStep, ledgerDeposits, balance, pureVars>>

NextProvision == \E lookupOk, createOk \in BOOLEAN : EnsureSwigWallet(lookupOk, createOk)

SpecProvision == InitProvision /\ [][NextProvision]_vars

----------------------------------------------------------------------------
(* The API routes on their own: the server handles one request after        *)
(* another.  calls logs the work a handler did for a request, updates the   *)
(* responses.                                                               *)

\* the Authorization header of a request: absent, not of the form
\* "Bearer <token>", a bearer token that does not verify, one that does
Headers == {"none", "no_bearer", "bearer_bad", "bearer_valid"}

\* lib/auth/jwt: the token of a "Bearer <token>" header, or null
extractTokenFromHeader(authHeader) ==
    CASE authHeader = "bearer_bad" -> "bad"
      [] authHeader = "bearer_valid" -> "valid"
      [] OTHER -> "null"

\* lib/auth/jwt: verifyToken returns the payload of a valid token and raises otherwise
verifyToken(token) == token = "valid"

\* authenticateRequest (middleware.ts): TRUE when it returns, FALSE when it
\* raises AuthenticationError
authenticateRequest(authHeader) ==
    LET token == extractTokenFromHeader(authHeader)
    IN  IF token = "null" THEN FALSE ELSE verifyToken(token)

\* !authHeader || !authHeader.startsWith('Bearer ') of the quote route
HasBearerPrefix(authHeader) == authHeader \in {"bearer_bad", "bearer_valid"}

Work(route, authHeader, op) == [route |-> route, header |-> authHeader, op |-> op]

Response(route, status) == [route |-> route, status |-> status, success |-> status = 200]

\* a handler answers: the work it did, if any, and its response
Respond(work, response) ==
    /\ pc = "serve"
    /\ ticks < MaxRequests
    /\ calls' = calls \o work
    /\ updates' = Append(updates, response)
    /\ ticks' = ticks + 1
    /\ UNCHANGED <<pageVars, runVars, ledgerDeposits, swigs, balance, pureVars>>

\* a route that starts with authenticateRequest(request) inside its try:
\* 401 from handleError when it raises, 400 for a body that fails the
\* validation, else the operation of the route
AuthenticatedRoute(route, op, authHeader, bodyOk) ==
    IF ~authenticateRequest(authHeader) THEN Respond(<<>>, Response(route, 401))
    ELSE IF ~bodyOk THEN Respond(<<>>, Response(route, 400))
    ELSE Respond(<<Work(route, authHeader, op)>>, Response(route, 200))

\* GET /api/swap/price
SwapPrice(authHeader, bodyOk) == AuthenticatedRoute("swap/price", "fetchPrice", authHeader, bodyOk)

\* POST /api/swap/relay/quote
RelayQuote(authHeader, bodyOk) == AuthenticatedRoute("swap/relay/quote", "fetchQuote", authHeader, bodyOk)

\* POST /api/swap/relay/execute
RelayExecute(authHeader, bodyOk) == AuthenticatedRoute("swap/relay/execute", "executeRelaySwapWithSwig", authHeader, bodyOk)

\* GET of the swap quote route: only the form of the header is tested
SwapQuote(authHeader, bodyOk) ==
    IF ~HasBearerPrefix(authHeader) THEN Respond(<<>>, Response("swap/quote", 401))
    ELSE IF ~bodyOk THEN Respond(<<>>, Response("swap/quote", 400))
    ELSE Respond(<<Work("swap/quote", authHeader, "fetchQuote")>>, Response("swap/quote", 200))

\* POST /api/transaction/sign: the header is never read; a body without
\* transactionBase64 is refused, any other transaction is signed with the
\* fee payer's key and sent
TransactionSign(authHeader, bodyOk) ==
    IF ~bodyOk THEN Respond(<<>>, Response("transaction/sign", 400))
    ELSE Respond(<<Work("transaction/sign", authHeader, "sendAndConfirmTransaction")>>, Response("transaction/sign", 200))

InitApi ==
    /\ pc = "serve"
    /\ ticks = 0
    /\ numChunks = MIN_CHUNKS
    /\ ledgerDeposits = <<>>
    /\ previousAmounts = <<>>
    /\ totalAmount = 0
    /\ plan = NoPlan
    /\ schedule = NoSchedule
    /\ swigs = {}
    /\ balance = 0
    /\ PageIdle /\ RunIdle

NextApi ==
    \E authHeader \in Headers, bodyOk \in BOOLEAN :
        \/ SwapPrice(authHeader, bodyOk)
        \/ RelayQuote(authHeader, bodyOk)
        \/ RelayExecute(authHeader, bodyOk)
        \/ SwapQuote(authHeader, bodyOk)
        \/ TransactionSign(authHeader, bodyOk)

SpecApi == InitApi /\ [][NextApi]_vars

----------------------------------------------------------------------------
(* Properties of the API routes (SpecApi) *)

\* C16: every route does its work only for a request that carries a valid
\* "Authorization: Bearer <token>" header; any other request is answered
\* 401 before any work, POST /api/transaction/sign included.
C16_AllRoutesAuthenticate ==
    /\ \A j \in 1..Len(calls) : calls[j].header = "bearer_valid"
    /\ Len(calls) <= Len(updates)

----------------------------------------------------------------------------
(* Properties of the wallet provisioner (SpecProvision) *)

CreatesWallet(cs) == \E j \in 1..Len(cs) : cs[j].op = "createSwig"

\* C12: a call of ensureSwigWalletExists submits a wallet creation only when
\* no wallet exists for the identity; when the wallet exists the call has no
\* side effect (no creation, no status text, the ledger unchanged); and a
\* call that follows a call that returned creates nothing.
C12_Idempotent ==
    [][ /\ CreatesWallet(NewCalls) => i \notin swigs
        /\ i \in swigs => (~CreatesWallet(NewCalls) /\ updates' = updates /\ swigs' = swigs)
        /\ pc = "ensured" => ~CreatesWallet(NewCalls) ]_vars

----------------------------------------------------------------------------
(* Properties of the chunk planner (SpecPlan) *)

Planned == pc = "planned"

\* C2: the amounts the chunk planner returns sum to exactly totalAmount,
\* for an empty and for a non-empty history.
C2_ChunkSum == Planned => SumSeq(plan.amounts) = totalAmount

\* a plan from a non-empty history with a matched slot and a proportional slot
C2_Witness ==
    /\ Planned
    /\ previousAmounts # <<>>
    /\ \E a, b \in 1..Len(plan.picked) : plan.picked[a] > 0 /\ plan.picked[b] = 0
    /\ SumSeq(plan.amounts) = totalAmount

\* C3: the chunk planner returns exactly numChunks amounts, in the
\* empty-history branch and in the history-matching branch.
C3_ChunkCount == Planned => Len(plan.amounts) = numChunks

\* a plan of MAX_CHUNKS amounts whose slots all fell back to the proportional split
C3_Witness ==
    /\ Planned
    /\ previousAmounts # <<>>
    /\ numChunks = MAX_CHUNKS
    /\ Len(plan.amounts) = MAX_CHUNKS
    /\ \A a \in 1..Len(plan.picked) : plan.picked[a] = 0

\* C10: a total too small to split into numChunks positive parts yields no
\* plan; equivalently every amount of a plan is a strictly positive integer.
C10_PositiveChunks ==
    Planned => /\ totalAmount >= numChunks
               /\ \A k \in 1..Len(plan.amounts) : plan.amounts[k] >= 1

\* C19: with a non-empty history of distinct amounts, no entry of the
\* history is taken for more than one of the first numChunks - 1 slots.
C19_NoReuse ==
    (Planned /\ previousAmounts # <<>>) =>
        \A a, b \in 1..Len(plan.picked) :
            (a # b /\ plan.picked[a] > 0) => plan.picked[a] # plan.picked[b]

\* C20: with a history of fewer entries than numChunks - 1 that all fit the
\* total together, every entry of the history is the amount of one of the
\* first numChunks - 1 slots, each other of these slots holds
\* floor(remaining / slots left), and the last slot holds the remainder.
C20_ShortHistory ==
    ( /\ Planned
      /\ Len(previousAmounts) >= 1
      /\ Len(previousAmounts) < numChunks - 1
      /\ SumSeq(previousAmounts) <= totalAmount )
    => /\ \A h \in 1..Len(previousAmounts) : \E a \in 1..(numChunks - 1) : plan.picked[a] = h
       /\ \A a \in 1..(numChunks - 1) :
             plan.picked[a] = 0 =>
                 plan.amounts[a] = (totalAmount - SumSeq(SubSeq(plan.amounts, 1, a - 1))) \div (numChunks - a + 1)
       /\ Cardinality({a \in 1..(numChunks - 1) : plan.picked[a] = 0}) = numChunks - 1 - Len(previousAmounts)
       /\ plan.amounts[numChunks] = totalAmount - SumSeq(SubSeq(plan.amounts, 1, numChunks - 1))

----------------------------------------------------------------------------
(* Properties of the delay scheduler (SpecSched) *)

Monotone(f) ==
    \A a, b \in DOMAIN f \cap (MIN_CHUNKS..MAX_CHUNKS) : a <= b => f[a] <= f[b]

\* C9 as stated: schedule(MIN_CHUNKS) = 0, schedule(MAX_CHUNKS) = MAX_DELAY
\* and schedule is non-decreasing over [MIN_CHUNKS, MAX_CHUNKS].
C9_AsStated ==
    /\ MIN_CHUNKS \in DOMAIN schedule => schedule[MIN_CHUNKS] = 0
    /\ MAX_CHUNKS \in DOMAIN schedule => schedule[MAX_CHUNKS] = MAX_DELAY_MS
    /\ Monotone(schedule)

\* C9 as amended: calculateDelayMs(MIN_CHUNKS) = 0, calculateDelayMs(MAX_CHUNKS)
\* is half of MAX_DELAY (one of the two delay periods), and calculateDelayMs
\* is non-decreasing over [MIN_CHUNKS, MAX_CHUNKS].
C9_DelayEndpoints ==
    /\ MIN_CHUNKS \in DOMAIN schedule => schedule[MIN_CHUNKS] = 0
    /\ MAX_CHUNKS \in DOMAIN schedule => 2 * schedule[MAX_CHUNKS] = MAX_DELAY_MS
    /\ Monotone(schedule)

\* every chunk count of [MIN_CHUNKS, MAX_CHUNKS] has been scheduled
C9_Witness ==
    /\ MIN_CHUNKS..MAX_CHUNKS \subseteq DOMAIN schedule
    /\ schedule[MIN_CHUNKS] < schedule[MIN_CHUNKS + 1]
    /\ schedule[MAX_CHUNKS] > 0

----------------------------------------------------------------------------
(* Further properties of the run (Spec) *)

\* the estimate the page shows for both delay periods (lines 873-874)
totalEstimatedTime == calculateDelayMs(numChunks) * 2

Sleeping == pc \in {"sleep1", "sleep2"}

\* C21: for every chunk count n of [MIN_CHUNKS, MAX_CHUNKS] the sleep of step 5
\* and the sleep of step 10 last the same d(n) = calculateDelayMs(n), twice
\* d(n) is exactly (n - MIN_CHUNKS) / (MAX_CHUNKS - MIN_CHUNKS) * MAX_DELAY,
\* and with n = MIN_CHUNKS the run never sleeps (d = 0).
C21_EqualHalves ==
    /\ Sleeping =>
          /\ numChunks \in MIN_CHUNKS..MAX_CHUNKS
          /\ delayMs = calculateDelayMs(numChunks)
          /\ delayMs > 0
          /\ 2 * delayMs = totalEstimatedTime
          /\ 2 * delayMs * (MAX_CHUNKS - MIN_CHUNKS) = (numChunks - MIN_CHUNKS) * MAX_DELAY_MS
    /\ (numChunks = MIN_CHUNKS /\ pc \notin {"idle", "validate"}) =>
          /\ delayMs = 0
          /\ ~Sleeping

\* the second sleep of a run of MAX_CHUNKS chunks has counted down once
C21_Witness ==
    /\ pc = "sleep2"
    /\ numChunks = MAX_CHUNKS
    /\ ticks >= 1
    /\ UpdatesAt(5, "completed") # {}

\* the positions, in the log of calls, of the four calls made for burner k
Provisions(k) == {p \in 1..Len(calls) : calls[p].op = "fetchSwig" /\ calls[p].key = k}

BurnerWithdrawals(k) == {p \in 1..Len(calls) : IsWithdrawToBurner(calls[p]) /\ calls[p].to = Wallet(k)}

BurnerDeposits(k) == {p \in 1..Len(calls) : calls[p].op = "deposit" /\ calls[p].key = k /\ calls[p].tempIndex = k}

RecipientWithdrawals(k) == {p \in 1..Len(calls) : IsWithdrawToRecipient(calls[p]) /\ calls[p].key = k /\ calls[p].tempIndex = k}

\* the positions of the calls of steps 6, 7, 8 and 11
Step6Calls == {p \in 1..Len(calls) : calls[p].op \in {"fetchSwig", "createSwig"} /\ calls[p].key # 0}

Step7Calls == {p \in 1..Len(calls) : IsWithdrawToBurner(calls[p])}

Step8Calls == {p \in 1..Len(calls) : calls[p].op \in {"transfer", "deposit"} /\ calls[p].key # 0}

Step11Calls == {p \in 1..Len(calls) : IsWithdrawToRecipient(calls[p])}

AllBefore(P, Q) == \A p \in P : \A q \in Q : p < q

\* C22: burner i is provisioned before the step-7 withdrawal to it, which
\* precedes the step-8 deposit from it, which precedes the step-11 withdrawal
\* under its identity; all burners are provisioned before the first step-7
\* withdrawal and every step-7 withdrawal precedes the first step-8 transfer;
\* a successful run has made all four calls for every burner.
C22_BurnerOrder ==
    /\ AllBefore(Step6Calls, Step7Calls)
    /\ AllBefore(Step7Calls, Step8Calls)
    /\ AllBefore(Step8Calls, Step11Calls)
    /\ Step7Calls # {} =>
          /\ \A k \in 1..numChunks : Provisions(k) # {}
          /\ \A q \in Step7Calls : calls[q].to.id \in 1..numChunks
    /\ Step8Calls # {} =>
          /\ \A k \in 1..numChunks : Cardinality(BurnerWithdrawals(k)) = 1
          /\ \A q \in Step8Calls : calls[q].key \in 1..numChunks /\ calls[q].tempIndex = calls[q].key
    /\ \A q \in Step11Calls :
          /\ calls[q].key \in 1..numChunks
          /\ calls[q].tempIndex = calls[q].key
          /\ \E p \in BurnerDeposits(calls[q].key) : p < q
    /\ RunSucceeded =>
          \A k \in 1..numChunks :
             /\ Cardinality(BurnerDeposits(k)) = 1
             /\ Cardinality(RecipientWithdrawals(k)) = 1

\* a successful run of three burners, the first of which had to be created
C22_Witness ==
    /\ RunSucceeded
    /\ numChunks = 3
    /\ \E p \in 1..Len(calls) : calls[p].op = "createSwig" /\ calls[p].key = 1
    /\ \A k \in 1..3 : RecipientWithdrawals(k) # {}

\* the pool calls made so far under the identity (key, tempIndex), a deposit
\* that raised (the last call of a run that failed in step 3 or 8) left out
PoolCalls(op, key, tempIndex) ==
    LET done == IF failedStep \in {3, 8} /\ calls # <<>> /\ Last(calls).op = "deposit"
                THEN SubSeq(calls, 1, Len(calls) - 1)
                ELSE calls
    IN  SelectSeq(IF op = "deposit" THEN done ELSE calls,
                  LAMBDA c : c.op = op /\ c.key = key /\ c.tempIndex = tempIndex)

Deposited(key, tempIndex) == SumSeq(Lamports(PoolCalls("deposit", key, tempIndex)))

Withdrawn(key, tempIndex) == SumSeq(Lamports(PoolCalls("withdraw", key, tempIndex)))

\* C23: under every pool identity (signing key, temp-keypair index) the amount
\* withdrawn so far never exceeds the amount deposited so far; the step-7
\* withdrawals are made under the identity (main key, 0) of the step-3
\* deposit, and the step-11 withdrawal of burner i under the identity
\* (burner i, i) of its step-8 deposit.
C23_WithdrawalsCovered ==
    /\ \A k \in 0..numChunks : Withdrawn(k, k) <= Deposited(k, k)
    /\ \A q \in 1..Len(calls) :
          calls[q].op \in {"deposit", "withdraw"} =>
             /\ calls[q].key \in 0..numChunks
             /\ calls[q].tempIndex = calls[q].key
    /\ Step7Calls # {} =>
          /\ Deposited(0, 0) = amountLamports
          /\ \A q \in Step7Calls : calls[q].key = 0
    /\ \A q \in Step11Calls :
          /\ calls[q].key = Cardinality({p \in Step11Calls : p <= q})
          /\ calls[q].lamports = Deposited(calls[q].key, calls[q].key)

\* a run of three chunks has withdrawn the whole deposit of the main identity
\* and the deposit of the second burner
C23_Witness ==
    /\ numChunks = 3
    /\ amountLamports = 20
    /\ Withdrawn(0, 0) = 20
    /\ Deposited(2, 2) = 6
    /\ Withdrawn(2, 2) = 6
    /\ Deposited(3, 3) = 8
    /\ Withdrawn(3, 3) = 0

\* the transfers that step 3 makes out of the main wallet
Step3Transfers == {p \in 1..Len(calls) : calls[p].op = "transfer" /\ calls[p].key = 0}

\* C24: whenever the main wallet passes the balance check, what step 3
\* transfers out of the main wallet does not exceed the balance that was
\* read, so that step 3 cannot fail for lack of funds.
C24_CheckCoversDeposit ==
    \A p \in Step3Transfers :
       /\ ~BalanceTooLow(balance, amountLamports)
       /\ ~JsLess(balance, calls[p].lamports)

\* C25: every run that passes the validation moves a strictly positive
\* amount: the amount in lamports computed from the input, deposited in step 3
\* and shared out in step 7, is at least 1.
C25_PositiveAmount ==
    (pc \notin {"idle", "validate"} /\ ValidationPasses(privateKey, recipient, amount, numChunks)) =>
       /\ amountLamports >= 1
       /\ \A p \in 1..Len(calls) : calls[p].op = "deposit" /\ calls[p].key = 0 => calls[p].lamports >= 1

----------------------------------------------------------------------------
(* The runs of valid inputs and a sufficient balance, all of whose          *)
(* collaborator calls return and whose timers fire: the steps of Next that  *)
(* raise nothing, taken fairly.                                             *)

\* valid inputs and a balance that covers what step 3 moves out of the wallet
RunCanSucceed ==
    /\ ValidationPasses(privateKey, recipient, amount, numChunks)
    /\ ~IsNaN(ToLamports(amount))
    /\ DepositPossible(ToLamports(amount), balance, "ok")

\* the runs of MIN_CHUNKS to MIN_CHUNKS + MaxLiveChunks chunks that can succeed
InitLive == Init /\ RunCanSucceed /\ numChunks <= MIN_CHUNKS + MaxLiveChunks

NextLive ==
    \/ HandleSubmit
    \/ Enter
    \/ \E queryOk \in BOOLEAN, seed \in 0..MaxSeed : QueryHistory(queryOk, seed)
    \/ SetupMain
    \/ DepositMain
    \/ IndexWait1
    \/ SleepTick("sleep1", 5)
    \/ Sleep1Ends
    \/ SetupBurner
    \/ WithdrawToBurner
    \/ ConfirmWait
    \/ DepositFromBurner
    \/ IndexWait2
    \/ SleepTick("sleep2", 10)
    \/ Sleep2Ends
    \/ WithdrawFinal
    \/ RunReturns

SpecLive == InitLive /\ [][NextLive]_vars /\ WF_vars(NextLive)

\* deposit, chunkCount withdrawals, chunkCount deposits, chunkCount withdrawals
ExpectedSignatures(n) ==
    <<<<"deposit", 0>>>>
    \o [k \in 1..n |-> <<"withdraw", k>>]
    \o [k \in 1..n |-> <<"deposit", k>>]
    \o [k \in 1..n |-> <<"withdraw_final", k>>]

RunCompleted ==
    /\ pc = "done"
    /\ UpdatesAt(11, "completed") # {}
    /\ result.success
    /\ result.signatures = ExpectedSignatures(numChunks)
    /\ Len(result.signatures) = 1 + 3 * numChunks
    /\ Len(result.burnerAddresses) = numChunks

\* C26: for valid inputs and a sufficient balance, when every collaborator
\* call returns and the timers fire, the run eventually emits
\* {step: 11, 'completed'} and returns a successful result with
\* 1 + 3 * chunkCount signatures in order and chunkCount burner addresses;
\* a countdown sleep always ends.
C26_Terminates ==
    /\ pc = "validate" ~> RunCompleted
    /\ Sleeping ~> ~Sleeping

\* a run of three chunks, with both delays, has returned its ten signatures
C26_Witness ==
    /\ RunCompleted
    /\ numChunks = 3
    /\ Len(result.signatures) = 10
    /\ UpdatesAt(5, "completed") # {}
    /\ UpdatesAt(10, "completed") # {}

----------------------------------------------------------------------------
(* Properties of the page's step list (Spec) *)

\* the entries of the step list that updateStep replaces by the update
EntriesOf(update) ==
    {s \in DOMAIN generateSteps(numChunks) : updateStep(generateSteps(numChunks), update)[s] = update}

\* C27: every update that executePrivateSend emits is applied by updateStep to
\* exactly one entry of the step list, the one of its step number, so that no
\* update is dropped, and after a successful run every entry of the list is
\* 'completed'.
C27_UpdatesApplied ==
    /\ \A j \in 1..Len(updates) :
          /\ updates[j].step \in 1..11
          /\ Cardinality(EntriesOf(updates[j])) = 1
    /\ pc = "returned" => \A s \in DOMAIN steps : steps[s].status = "completed"

----------------------------------------------------------------------------
(* The page around its runs: the effect that follows a render in which      *)
(* loading or the privacy level changed, the privacy slider, a new submit.  *)
(* numChunks is the page's privacyLevel, which a run receives as numChunks. *)

\* the positions of the privacy slider that are tried
PrivacyChoices == MIN_CHUNKS..(MIN_CHUNKS + MaxLevels)

InitPage ==
    /\ Init
    /\ isValidPrivateKey(FormatKey(privateKey))
    /\ isValidSolanaAddress(recipient)
    /\ numChunks \in PrivacyChoices

\* useEffect(() => { if (!loading) setSteps(generateSteps(privacyLevel)) },
\* [privacyLevel, loading]) (lines 863-867), run after the render that ended
\* a run (loading became false) or that changed the privacy level
StepsEffect ==
    /\ pc \in {"done", "level_changed"}
    /\ steps' = IF ~loading THEN generateSteps(numChunks) ELSE steps
    /\ pc' = "settled"
    /\ UNCHANGED <<inputVars, uiVars, amountLamports, delayMs, previousAmounts, matchedAmounts, burnerWallets, withdrawalAmounts, signatures, i, failedStep, obsVars, worldVars, pureVars>>

\* the slider (lines 976-984), disabled while a run is loading
SetPrivacyLevel(n) ==
    /\ pc \in {"idle", "settled"}
    /\ ~loading
    /\ n # numChunks
    /\ numChunks' = n
    /\ pc' = "level_changed"
    /\ UNCHANGED <<privateKey, recipient, amount, serverVars, guardVars, uiVars, steps, amountLamports, delayMs, previousAmounts, matchedAmounts, burnerWallets, withdrawalAmounts, signatures, i, failedStep, obsVars, worldVars, pureVars>>

\* handleSubmit (lines 876-884) once more, after a run: the locals of the run
\* before and what was observed of it are forgotten
SubmitAgain ==
    /\ pc = "settled"
    /\ ~loading
    /\ loading' = TRUE
    /\ error' = FALSE
    /\ result' = NoResult
    /\ steps' = generateSteps(numChunks)
    /\ pc' = "validate"
    /\ amountLamports' = 0
    /\ delayMs' = 0
    /\ previousAmounts' = <<>>
    /\ matchedAmounts' = <<>>
    /\ burnerWallets' = <<>>
    /\ withdrawalAmounts' = <<>>
    /\ signatures' = <<>>
    /\ i' = 0
    /\ failedStep' = 0
    /\ updates' = <<>>
    /\ calls' = <<>>
    /\ UNCHANGED <<inputVars, worldVars, pureVars>>

NextPage ==
    \/ Next
    \/ StepsEffect
    \/ \E n \in PrivacyChoices : SetPrivacyLevel(n)
    \/ SubmitAgain

SpecPage == InitPage /\ [][NextPage]_vars

\* the result or the error of the last run is on display
Displayed == ~loading /\ (error \/ result.success)

\* C28: once a run has ended, and for as long as its result or error is
\* displayed, the step list keeps the statuses the run reached: it changes
\* only when the user has changed the privacy level or submits again, and no
\* automatic action resets it in between.
C28_StepsKept ==
    [][(Displayed /\ steps' # steps) => (pc = "level_changed" \/ loading')]_vars

----------------------------------------------------------------------------
(* The user store of the server (lib/auth/users): createUser called by      *)
(* concurrent POST /api/auth/register requests.  A call runs up to its      *)
(* `await bcrypt.hash` in one turn of the event loop and from there to its  *)
(* return in a later one; the turns of different requests interleave.       *)

\* e-mail addresses that differ in case only, and another one
Emails == { <<"a", "@", "x">>, <<"A", "@", "x">>, <<"b", "@", "x">> }

LowerChar(c) == CASE c = "A" -> "a" [] c = "B" -> "b" [] c = "X" -> "x" [] OTHER -> c

\* String.prototype.toLowerCase
toLowerCase(s) == [k \in DOMAIN s |-> LowerChar(s[k])]

\* the loop of lines 87-91: some user of the store has this e-mail
UserExists(email) ==
    \E u \in 1..Len(users) : toLowerCase(users[u].email) = toLowerCase(email)

\* the store at start-up: users = loadUsers() reads the file (lines 45-66, 83)
loadUsers(file) == file

\* saveUsers (lines 69-80): the file rewritten, or left as it is when the
\* write raises (the exception is caught and logged)
saveUsers(us, saveOk) == IF saveOk THEN us ELSE usersFile

InitUsers ==
    /\ pc = "serve"
    /\ usersFile \in { <<>>, <<[id |-> 1, email |-> <<"b", "@", "x">>]>> }
    /\ users = loadUsers(usersFile)
    /\ registrations = <<>>
    /\ GuardIdle
    /\ privateKey = [prefix0x |-> TRUE, len |-> KEY_HEX_LEN, hex |-> TRUE]
    /\ recipient = [base58 |-> TRUE, bytes |-> PUBKEY_BYTES]
    /\ amount = <<>>
    /\ numChunks = MIN_CHUNKS
    /\ loading = FALSE
    /\ steps = <<>>
    /\ error = FALSE
    /\ result = NoResult
    /\ previousAmounts = <<>>
    /\ ledgerDeposits = <<>>
    /\ totalAmount = 0
    /\ plan = NoPlan
    /\ schedule = NoSchedule
    /\ RunIdle /\ WorldIdle

\* createUser up to its await (lines 85-94), for a request POST
\* /api/auth/register that passed the validation of the route: the check of
\* the store, then either the throw or the start of the hash
CreateUserChecks(email) ==
    /\ pc = "serve"
    /\ Len(registrations) < MaxRegistrations
    /\ registrations' = Append(registrations,
          [email |-> email, at |-> IF UserExists(email) THEN "User already exists" ELSE "hashing"])
    /\ UNCHANGED <<users, usersFile, guardVars, privateKey, recipient, amount, numChunks, loading, steps, error, result, runVars, obsVars, worldVars, pureVars>>

\* createUser from the resolution of the hash to its return (lines 94-107):
\* the user is built with a new id, put in the store, the store saved
CreateUserInserts(r, saveOk) ==
    /\ pc = "serve"
    /\ r \in 1..Len(registrations)
    /\ registrations[r].at = "hashing"
    /\ LET user == [id |-> Len(users) + 1, email |-> toLowerCase(registrations[r].email)]
       IN  /\ users' = Append(users, user)
           /\ usersFile' = saveUsers(Append(users, user), saveOk)
    /\ registrations' = [registrations EXCEPT ![r].at = "created"]
    /\ UNCHANGED <<guardVars, privateKey, recipient, amount, numChunks, loading, steps, error, result, runVars, obsVars, worldVars, pureVars>>

NextUsers ==
    \/ \E email \in Emails : CreateUserChecks(email)
    \/ \E r \in 1..MaxRegistrations, saveOk \in BOOLEAN : CreateUserInserts(r, saveOk)

SpecUsers == InitUsers /\ [][NextUsers]_vars

\* C29: after any interleaving of concurrent createUser calls the store
\* never holds two users whose e-mails are equal ignoring case, and a
\* registration of an e-mail that is in the store does not add a user.
C29_UniqueEmails ==
    /\ [](\A a, b \in 1..Len(users) :
            a # b => toLowerCase(users[a].email) # toLowerCase(users[b].email))
    /\ [][\A u \in (Len(users) + 1)..Len(users') : ~UserExists(users'[u].email)]_vars

----------------------------------------------------------------------------
(* The route guard (components/ProtectedRoute.tsx): one guarded page        *)
(* mounted at a time, the module-level authCache kept from one mount to the *)
(* next, the token stored by the login page and removed by the dashboard.   *)

Tokens == {"t1", "t2"}

\* what /api/auth/verify answers: 200; 401, 403 or 404; another status; or
\* the fetch raises
VerifyOutcomes == {"ok", "auth_failure", "other_status", "network_error"}

\* the time between two readings of the clock that differ
ClockStep == CACHE_DURATION \div 2

\* lines 31-35: the cache holds this token, valid, younger than CACHE_DURATION
CacheFresh(token, now) ==
    /\ authCache.token = token
    /\ authCache.isValid
    /\ now - authCache.timestamp < CACHE_DURATION

InitGuard ==
    /\ pc = "browse"
    /\ localToken \in Tokens \cup {NoToken}
    /\ authCache = NoAuthCache
    /\ clock = 0
    /\ guard = NoGuard
    /\ ServerIdle
    /\ privateKey = [prefix0x |-> TRUE, len |-> KEY_HEX_LEN, hex |-> TRUE]
    /\ recipient = [base58 |-> TRUE, bytes |-> PUBKEY_BYTES]
    /\ amount = <<>>
    /\ numChunks = MIN_CHUNKS
    /\ loading = FALSE
    /\ steps = <<>>
    /\ error = FALSE
    /\ result = NoResult
    /\ previousAmounts = <<>>
    /\ ledgerDeposits = <<>>
    /\ totalAmount = 0
    /\ plan = NoPlan
    /\ schedule = NoSchedule
    /\ RunIdle /\ WorldIdle

GuardUnchanged == UNCHANGED <<serverVars, privateKey, recipient, amount, numChunks, loading, steps, error, result, runVars, obsVars, worldVars, pureVars>>

\* a guarded page is opened: useState(false), useState(true) (lines 17-18)
Mount ==
    /\ guard.pc \in {"unmounted", "settled"}
    /\ guard' = [NoGuard EXCEPT !.pc = "mounted"]
    /\ UNCHANGED <<localToken, authCache, clock>>
    /\ GuardUnchanged

\* checkAuth up to its await (lines 22-47)
CheckAuth ==
    /\ guard.pc = "mounted"
    /\ LET token == localToken
           now == clock
       IN  IF token = NoToken
           THEN /\ authCache' = NoAuthCache
                /\ guard' = [guard EXCEPT !.pc = "settled", !.redirected = TRUE]
           ELSE IF CacheFresh(token, now)
           THEN /\ authCache' = authCache
                /\ guard' = [guard EXCEPT !.pc = "settled", !.token = token, !.now = now,
                                          !.isAuthenticated = TRUE, !.loading = FALSE]
           ELSE /\ authCache' = authCache
                /\ guard' = [guard EXCEPT !.pc = "verifying", !.token = token, !.now = now]
    /\ UNCHANGED <<localToken, clock>>
    /\ GuardUnchanged

\* checkAuth from the answer of /api/auth/verify to its end (lines 49-79)
VerifyAnswers(outcome) ==
    /\ guard.pc = "verifying"
    /\ CASE outcome = "ok" ->
              /\ authCache' = [token |-> guard.token, isValid |-> TRUE, timestamp |-> guard.now]
              /\ localToken' = localToken
              /\ guard' = [guard EXCEPT !.pc = "settled", !.response = outcome,
                                        !.isAuthenticated = TRUE, !.loading = FALSE]
         [] outcome = "auth_failure" ->
              /\ authCache' = NoAuthCache
              /\ localToken' = NoToken
              /\ guard' = [guard EXCEPT !.pc = "settled", !.response = outcome,
                                        !.redirected = TRUE, !.loading = FALSE]
         [] OTHER ->
              /\ authCache' = authCache
              /\ localToken' = localToken
              /\ guard' = [guard EXCEPT !.pc = "settled", !.response = outcome,
                                        !.isAuthenticated = TRUE, !.loading = FALSE]
    /\ UNCHANGED clock
    /\ GuardUnchanged

\* the login page stores the token it received (login/page.tsx, line 46)
Login(token) ==
    /\ guard.pc \in {"unmounted", "settled"}
    /\ localToken' = token
    /\ UNCHANGED <<authCache, clock, guard>>
    /\ GuardUnchanged

\* the dashboard removes the token (dashboard/page.tsx, line 18)
Logout ==
    /\ guard.pc = "settled"
    /\ localToken # NoToken
    /\ localToken' = NoToken
    /\ UNCHANGED <<authCache, clock, guard>>
    /\ GuardUnchanged

\* time passes (Date.now())
ClockAdvances ==
    /\ clock < MaxClockSteps * ClockStep
    /\ clock' = clock + ClockStep
    /\ UNCHANGED <<localToken, authCache, guard>>
    /\ GuardUnchanged

NextGuard ==
    \/ Mount
    \/ CheckAuth
    \/ \E outcome \in VerifyOutcomes : VerifyAnswers(outcome)
    \/ \E token \in Tokens : Login(token)
    \/ Logout
    \/ ClockAdvances

SpecGuard == InitGuard /\ [][NextGuard]_vars

\* lines 85-97: neither the loading placeholder nor null
ChildrenRendered == guard.pc # "unmounted" /\ ~guard.loading /\ guard.isAuthenticated

\* C30: the children are rendered only when localStorage held a token and
\* this check of the token was accepted by /api/auth/verify or found a valid
\* cache entry for the same token younger than CACHE_DURATION.
C30_RendersOnlyVerified ==
    ChildrenRendered =>
       /\ guard.token # NoToken
       /\ guard.response = "ok" \/ CacheFresh(guard.token, guard.now)

====
